---- MODULE Spec2Model ----
(***************************************************************************)
(* Model of the read-only crate filesystem of src/src/main.rs: the inode   *)
(* table built by init/populate_crate from the .crate archives of a host   *)
(* directory, and the FUSE handlers answering against that table; and of   *)
(* the generic FuseFs<Imp> of src/src/lib.rs, which numbers what its        *)
(* provider lists, with the Tree its archive provider fills, of            *)
(* src/src/crate_file_provider.rs. A behaviour runs one of the three.      *)
(*                                                                         *)
(* A path is the sequence of its tokens: the separator "/" and the text    *)
(* between separators, so "a/x" is <<"a", "/", "x">> and "" is <<>>.        *)
(* An Option is a sequence of length at most one.                          *)
(***************************************************************************)
EXTENDS Integers, Sequences, FiniteSets, TLC

\* ---- bounds of the exploration ----
MaxFiles == 2
MaxEntries == 2
MaxCap == 2
MaxBatches == 4
MaxChildren == 2
MaxDepth == 2
MaxTarEntries == 3

\* ---- program constants ----
FUSE_ROOT_ID == 1
DIR_FH == 200679
FIL_FH == 220705
BLKSIZE == 512
PERM_DIR == 365
PERM_FIL == 292
UID == 1062
GID == 1063
ENOENT == 2
EBADF == 9
ENOTDIR == 20
EISDIR == 21
EINVAL == 22
EROFS == 30
EIO == 5
O_WRONLY == 1
O_RDWR == 2
O_CREAT == 64
O_EXCL == 128
O_TRUNC == 512
O_APPEND == 1024
FOPEN_KEEP_CACHE == 2

None == <<>>
Some(x) == <<x>>

\* ---- std::path ----
RECURSIVE Segments(_)
Segments(p) ==
  IF p = <<>> THEN <<>>
  ELSE IF Head(p) = "/" THEN Segments(Tail(p))
  ELSE <<Head(p)>> \o Segments(Tail(p))

HasRoot(p) == p # <<>> /\ Head(p) = "/"

\* Path::components: a leading "/" is RootDir, a leading "." is CurDir,
\* every other "." and every empty segment is dropped, ".." is ParentDir.
Components(p) ==
  LET body == SelectSeq(Segments(p), LAMBDA s : s # ".")
      lead == IF HasRoot(p) THEN <<"/">>
              ELSE IF p # <<>> /\ Head(p) = "." THEN <<".">>
              ELSE <<>>
  IN lead \o body

IsNormal(c) == c \notin {"/", ".", ".."}

\* Path::file_name: the last component when it is a Normal one.
FileName(p) ==
  LET c == Components(p)
  IN IF c # <<>> /\ IsNormal(c[Len(c)]) THEN Some(c[Len(c)]) ELSE None

\* PathBuf::push of one component: an absolute component replaces the path.
Push(p, c) ==
  IF c = "/" THEN <<"/">>
  ELSE IF p # <<>> /\ p[Len(p)] # "/" THEN p \o <<"/", c>>
  ELSE p \o <<c>>

\* Path == Path compares the components.
PathEq(p, q) == Components(p) = Components(q)

\* ---- inodes ----
DivCeil(a, b) == (a + b - 1) \div b

DIR_ATTR_TEMPLATE ==
  [ino |-> 0, size |-> 0, blocks |-> 0, atime |-> 0, mtime |-> 0, ctime |-> 0,
   crtime |-> 0, kind |-> "Directory", perm |-> PERM_DIR, nlink |-> 2,
   uid |-> UID, gid |-> GID, rdev |-> 0, flags |-> 0, blksize |-> 512]

FIL_ATTR_TEMPLATE ==
  [ino |-> 0, size |-> 0, blocks |-> 0, atime |-> 0, mtime |-> 0, ctime |-> 0,
   crtime |-> 0, kind |-> "RegularFile", perm |-> PERM_FIL, nlink |-> 1,
   uid |-> UID, gid |-> GID, rdev |-> 0, flags |-> 0, blksize |-> BLKSIZE]

DirInode(ino, path) ==
  [attrs |-> [DIR_ATTR_TEMPLATE EXCEPT !.ino = ino],
   children |-> <<>>, path |-> path, krate_path |-> None]

FileInode(ino, size, path, krate) ==
  [attrs |-> [FIL_ATTR_TEMPLATE EXCEPT !.ino = ino, !.size = size,
                                      !.blocks = DivCeil(size, BLKSIZE)],
   children |-> <<>>, path |-> path, krate_path |-> Some(krate)]

\* BTreeMap::insert
Insert(tbl, k, v) == [i \in DOMAIN tbl \cup {k} |-> IF i = k THEN v ELSE tbl[i]]

\* children.push of the counter's value after the increment instead of the
\* number the new inode was inserted under
AppendChild_NextInode(tbl, parent, child) ==
  [tbl EXCEPT ![parent].children = Append(@, child + 1)]

\* inodes.get_mut(&parent).unwrap().children.push(child)
AppendChild(tbl, parent, child) ==
  [tbl EXCEPT ![parent].children = Append(@, child)]

\* ---- inputs: the host directory and the archives in it ----
Files ==
  {[stem |-> "a", ext |-> "crate"], [stem |-> "b", ext |-> "crate"],
   [stem |-> "a", ext |-> "txt"]}

\* an item of Archive::entries(): Ok(entry) with its path and payload, or Err
Entry(path, data) == [err |-> FALSE, path |-> path, data |-> data]
BadEntry == [err |-> TRUE, path |-> <<>>, data |-> <<>>]

\* "a/x" with two payloads, "x", "x/" (a directory entry), "x/y", "", "./x",
\* "x/..", "/x"
Entries ==
  {Entry(<<"a", "/", "x">>, <<65>>), Entry(<<"a", "/", "x">>, <<66, 67>>),
   Entry(<<"x">>, <<65>>), Entry(<<"x", "/">>, <<66, 67>>),
   Entry(<<"x", "/", "y">>, <<66, 67>>),
   Entry(<<>>, <<65>>), Entry(<<".", "/", "x">>, <<65>>),
   Entry(<<"x", "/", "..">>, <<65>>), Entry(<<"/", "x">>, <<65>>),
   BadEntry}

LookupNames == {"a", "b", "x", "y", ".."}

VARIABLES
  pc,          \* "new", "scan" (init, between host files), "crate" (init,
               \* inside populate_crate), "serving", "aborted" (a panic);
               \* "absent" when the generic FuseFs<Imp> is the one mounted
  inodes,      \* FuseFs.inodes: ino -> Inode
  next_inode,  \* FuseFs.next_inode
  host,        \* the files read_dir has yielded so far, in order
  disk,        \* crate file -> [ok, entries]: the archives as init met them
  cur,         \* the crate file populate_crate is working on
  reply,       \* the request being answered and its reply
  listing,     \* a caller paging through one directory with readdir
  generic,     \* lib.rs FuseFs<Imp>: [inodes, bidirectional_tree_root,
               \* next_inode]
  gpc,         \* "new", "call" (populate_inodes_rec is being entered), "iter"
               \* (inside its map), "serving", "aborted"; "absent" when
               \* main.rs is the one mounted
  frames,      \* the activations of populate_inodes_rec, outermost first
  greply,      \* the request the generic FuseFs answers and its reply
  tree,        \* CrateFileProvider.tree: path from the root -> node
  storage,     \* the entries fill_tree has taken from the archive, in order
  tpc          \* "new", "fill" (inside the loop of fill_tree), "done",
               \* "aborted"; "absent" when no provider is constructed

gvars == <<generic, gpc, frames, greply>>
pvars == <<tree, storage, tpc>>
vars ==
  <<pc, inodes, next_inode, host, disk, cur, reply, listing, gvars, pvars>>

NoReply == [req |-> [op |-> "none"], rep |-> [kind |-> "none"]]
Idle == [state |-> "idle"]

Range(s) == {s[i] : i \in 1..Len(s)}

SetMin(S) == CHOOSE m \in S : \A n \in S : m <= n

RECURSIVE SumLen(_, _)
SumLen(f, D) ==
  IF D = {} THEN 0
  ELSE LET d == CHOOSE x \in D : TRUE
       IN Len(f[d].entries) + SumLen(f, D \ {d})

EntriesSeen == SumLen(disk, DOMAIN disk)

\* ---- FuseFs::new ----
\* ---- crate_file_provider.rs: the nodes of the Tree ----
\* A node is kept under the names that lead to it from the root, the root
\* under <<>>; the children of a Directory are None or the key set of its map.
Directory(name, children) ==
  [kind |-> "Directory", name |-> name, children |-> children]

File(name, index, size) ==
  [kind |-> "File", name |-> name, index |-> index, size |-> size]

\* Tree::new, lines 17-24
TreeNew == (<<>> :> Directory("/", None))

\* FuseFs::new of lib.rs, lines 76-83
GenericNew ==
  [inodes |-> <<>>, bidirectional_tree_root |-> None,
   next_inode |-> FUSE_ROOT_ID + 1]

\* one of the two filesystems is constructed and mounted
Init ==
  /\ \/ pc = "new" /\ gpc = "absent" /\ tpc = "absent"
     \/ pc = "absent" /\ gpc = "new" /\ tpc = "absent"
     \/ pc = "absent" /\ gpc = "absent" /\ tpc = "new"
  /\ inodes = <<>>
  /\ next_inode = FUSE_ROOT_ID + 1
  /\ host = <<>>
  /\ disk = <<>>
  /\ cur = None
  /\ reply = NoReply
  /\ listing = Idle
  /\ generic = GenericNew
  /\ frames = <<>>
  /\ greply = NoReply
  /\ tree = TreeNew
  /\ storage = <<>>

\* ---- populate_crate ----
\* the scan of lines 101-108: the first child whose file name is the component
FindChild(tbl, dir, name) ==
  LET ch == tbl[dir].children
      hits == {i \in 1..Len(ch) : FileName(tbl[ch[i]].path) = Some(name)}
  IN IF hits = {} THEN None ELSE Some(ch[SetMin(hits)])

\* the walk pushing the child onto its parent in every round, found or created
WalkStep_PushFound(st, component) ==
  LET found == FindChild(st.inodes, st.last, component)
      last_inode == IF found # None THEN found[1] ELSE st.last
      path == Push(st.path, component)
      new_inode == st.next
  IN IF last_inode = st.last
     THEN [inodes |-> AppendChild(Insert(st.inodes, new_inode,
                                         DirInode(new_inode, path)),
                                  last_inode, new_inode),
           next |-> st.next + 1, last |-> new_inode, path |-> path]
     ELSE [st EXCEPT !.inodes = AppendChild(st.inodes, st.last, last_inode),
                     !.last = last_inode, !.path = path]

\* one round of the loop over the intermediate components (lines 99-129)
WalkStep(st, component) ==
  LET found == FindChild(st.inodes, st.last, component)
      last_inode == IF found # None THEN found[1] ELSE st.last
      path == Push(st.path, component)
      new_inode == st.next
  IN IF last_inode = st.last
     THEN [inodes |-> AppendChild(Insert(st.inodes, new_inode,
                                         DirInode(new_inode, path)),
                                  last_inode, new_inode),
           next |-> st.next + 1, last |-> new_inode, path |-> path]
     ELSE [st EXCEPT !.last = last_inode, !.path = path]

RECURSIVE Walk(_, _)
Walk(st, comps) ==
  IF comps = <<>> THEN st ELSE Walk(WalkStep(st, Head(comps)), Tail(comps))

\* the body of the loop over the entries (lines 93-148) for one Ok entry;
\* components[0..len-1] panics when the path has no component
PopulateEntryBody(tbl, next, krate, entry) ==
  LET components == Components(entry.path)
      n == Len(components)
  IN IF n = 0 THEN [panic |-> TRUE, inodes |-> tbl, next |-> next]
     ELSE LET st == Walk([inodes |-> tbl, next |-> next,
                          last |-> FUSE_ROOT_ID, path |-> <<>>],
                         SubSeq(components, 1, n - 1))
              file_size == Len(entry.data)
              new_inode == st.next
          IN [panic |-> FALSE,
              inodes |-> AppendChild(Insert(st.inodes, new_inode,
                           FileInode(new_inode, file_size, entry.path, krate)),
                           st.last, new_inode),
              next |-> st.next + 1]

\* ---- Filesystem::init, one step per round of its loops ----
\* lines 196-208: the root inode, then read_dir(..).unwrap()
InitBegin(dir_ok) ==
  /\ pc = "new"
  /\ inodes' = Insert(inodes, FUSE_ROOT_ID, DirInode(FUSE_ROOT_ID, <<>>))
  /\ pc' = IF dir_ok THEN "scan" ELSE "aborted"
  /\ UNCHANGED <<next_inode, host, disk, cur, reply, listing, gvars, pvars>>

\* lines 209-232: one file of the host directory; a .crate file gets its
\* directory inode under the root and populate_crate opens the archive
InitNextFile(f, open_ok) ==
  /\ pc = "scan"
  /\ Len(host) < MaxFiles
  /\ f \notin Range(host)
  /\ host' = Append(host, f)
  /\ IF f.ext # "crate"
     THEN UNCHANGED <<pc, inodes, next_inode, disk, cur>>
     ELSE LET inode == next_inode
          IN /\ inodes' = AppendChild(
                            Insert(inodes, inode,
                                   DirInode(inode, Push(<<>>, f.stem))),
                            FUSE_ROOT_ID, inode)
             /\ next_inode' = next_inode + 1
             /\ disk' = Insert(disk, f, [ok |-> open_ok, entries |-> <<>>])
             /\ pc' = IF open_ok THEN "crate" ELSE "aborted"
             /\ cur' = IF open_ok THEN Some(f) ELSE None
  /\ UNCHANGED <<reply, listing, gvars, pvars>>

\* line 209: file.unwrap() on an Err item of read_dir
InitDirError ==
  /\ pc = "scan"
  /\ pc' = "aborted"
  /\ UNCHANGED <<inodes, next_inode, host, disk, cur, reply, listing,
                 gvars, pvars>>

\* lines 92-149: one item of archive.entries(); an Err item makes
\* populate_crate return Err, which init unwraps
PopulateEntry(e) ==
  /\ pc = "crate"
  /\ EntriesSeen < MaxEntries
  /\ disk' = [disk EXCEPT ![cur[1]].entries = Append(@, e)]
  /\ IF e.err
     THEN /\ pc' = "aborted"
          /\ UNCHANGED <<inodes, next_inode>>
     ELSE LET r == PopulateEntryBody(inodes, next_inode, cur[1], e)
          IN /\ pc' = IF r.panic THEN "aborted" ELSE "crate"
             /\ inodes' = r.inodes
             /\ next_inode' = r.next
  /\ UNCHANGED <<host, cur, reply, listing, gvars, pvars>>

\* line 150: the archive has no more entries, populate_crate returns Ok
PopulateEnd ==
  /\ pc = "crate"
  /\ pc' = "scan"
  /\ cur' = None
  /\ UNCHANGED <<inodes, next_inode, host, disk, reply, listing, gvars, pvars>>

\* lines 235-236: read_dir is exhausted, init returns Ok
InitEnd ==
  /\ pc = "scan"
  /\ pc' = "serving"
  /\ UNCHANGED <<inodes, next_inode, host, disk, cur, reply, listing,
                 gvars, pvars>>

\* ---- replies ----
Error(errno) == [kind |-> "error", errno |-> errno]
Panic == [kind |-> "panic"]

RECURSIVE BitAnd(_, _)
BitAnd(a, b) ==
  IF a = 0 \/ b = 0 THEN 0
  ELSE (a % 2) * (b % 2) + 2 * BitAnd(a \div 2, b \div 2)

RECURSIVE BitOr(_, _)
BitOr(a, b) ==
  IF a = 0 THEN b
  ELSE IF b = 0 THEN a
  ELSE (IF a % 2 = 1 \/ b % 2 = 1 THEN 1 ELSE 0) + 2 * BitOr(a \div 2, b \div 2)

\* O_APPEND | O_CREAT | O_EXCL | O_RDWR | O_WRONLY | O_TRUNC
WriteFlags ==
  BitOr(O_APPEND, BitOr(O_CREAT, BitOr(O_EXCL, BitOr(O_RDWR,
        BitOr(O_WRONLY, O_TRUNC)))))

\* ---- getattr ----
GetattrReply(tbl, ino) ==
  IF ino \in DOMAIN tbl THEN [kind |-> "attr", ttl |-> 1, attrs |-> tbl[ino].attrs]
  ELSE Error(ENOENT)

\* ---- opendir ----
\* opendir with the inode check moved before the flag check
OpendirReply_InodeFirst(tbl, ino, flags) ==
  IF ino \notin DOMAIN tbl THEN Error(ENOENT)
  ELSE IF BitAnd(flags, WriteFlags) # 0 THEN Error(EROFS)
  ELSE [kind |-> "opened", fh |-> DIR_FH, flags |-> FOPEN_KEEP_CACHE]

OpendirReply(tbl, ino, flags) ==
  IF BitAnd(flags, WriteFlags) # 0 THEN Error(EROFS)
  ELSE IF ino \notin DOMAIN tbl THEN Error(ENOENT)
  ELSE [kind |-> "opened", fh |-> DIR_FH, flags |-> FOPEN_KEEP_CACHE]

\* ---- open ----
OpenReply(tbl, ino, flags) ==
  IF BitAnd(flags, WriteFlags) # 0 THEN Error(EROFS)
  ELSE IF ino \notin DOMAIN tbl THEN Error(ENOENT)
  ELSE [kind |-> "opened", fh |-> FIL_FH, flags |-> FOPEN_KEEP_CACHE]

\* ---- lookup ----
\* the loop of lines 359-375; file_name().unwrap() panics on a child whose
\* path has no file name
RECURSIVE LookupScan(_, _, _)
LookupScan(tbl, ch, name) ==
  IF ch = <<>> THEN Error(ENOENT)
  ELSE LET tested_name == FileName(tbl[Head(ch)].path)
       IN IF tested_name = None THEN Panic
          ELSE IF Some(name) # tested_name THEN LookupScan(tbl, Tail(ch), name)
          ELSE [kind |-> "entry", ttl |-> 1, attrs |-> tbl[Head(ch)].attrs,
                generation |-> 0]

LookupReply(tbl, parent, name) ==
  IF parent \notin DOMAIN tbl THEN Error(ENOENT)
  ELSE IF tbl[parent].attrs.kind # "Directory" THEN Error(ENOTDIR)
  ELSE LookupScan(tbl, tbl[parent].children, name)

\* ---- readdir ----
\* ReplyDirectory::add: TRUE (and nothing added) when the buffer is full
Full(buf, cap) == Len(buf) >= cap

DirEntry(ino, offset, kind, name) ==
  [ino |-> ino, offset |-> offset, kind |-> kind, name |-> name]

\* the loop of lines 314-334 over the children left after skip()
RECURSIVE ReaddirChildren(_, _, _, _, _)
ReaddirChildren(tbl, ch, offset, buf, cap) ==
  IF ch = <<>> THEN [kind |-> "dir", entries |-> buf]
  ELSE LET child == tbl[Head(ch)]
           name == FileName(child.path)
       IN IF name = None THEN Panic
          ELSE IF Full(buf, cap) THEN [kind |-> "dir", entries |-> buf]
          ELSE ReaddirChildren(tbl, Tail(ch), offset + 1,
                 Append(buf, DirEntry(Head(ch), offset, child.attrs.kind,
                                      name[1])),
                 cap)

\* Iterator::skip
Skip(s, n) == IF n >= Len(s) THEN <<>> ELSE SubSeq(s, n + 1, Len(s))

Max(a, b) == IF a >= b THEN a ELSE b

ReaddirReply(tbl, ino, fh, off, cap) ==
  IF ino \notin DOMAIN tbl THEN Error(ENOENT)
  ELSE IF fh # DIR_FH THEN Error(EBADF)
  ELSE IF tbl[ino].attrs.kind # "Directory" THEN Error(ENOTDIR)
  ELSE LET offset == IF off = 0 THEN 0 ELSE off + 1
           b0 == <<>>
           dot == DirEntry(ino, 0, "Directory", ".")
           dotdot == DirEntry(ino, 1, "Directory", "..")
           b1 == IF offset <= 0 THEN Append(b0, dot) ELSE b0
       IN IF offset <= 0 /\ Full(b0, cap) THEN [kind |-> "dir", entries |-> b0]
          ELSE IF offset <= 1 /\ Full(b1, cap)
               THEN [kind |-> "dir", entries |-> b1]
          ELSE LET b2 == IF offset <= 1 THEN Append(b1, dotdot) ELSE b1
                   start == Max(2, offset)
               IN ReaddirChildren(tbl, Skip(tbl[ino].children, start - 2),
                                  start, b2, cap)

\* ---- read ----
\* what open_archive finds at krate_path when read reopens it: the archive
\* init saw, or a file that has since been removed, replaced by an archive
\* without the entries, corrupted from its first header, or whose payload
\* reads fail with an OS error, a decoder error or an unexpected end
DiskConds == {"same", "removed", "dropped", "cut", "os", "custom", "eof"}

ArchiveNow(a, cond) ==
  [ok |-> cond # "removed",
   entries |-> IF cond = "dropped" THEN <<>>
               ELSE IF cond = "cut" THEN <<BadEntry>>
               ELSE a.entries,
   io |-> IF cond \in {"os", "custom", "eof"} THEN cond ELSE "ok"]

\* lines 440-445: .map(|item| item.unwrap()).find(|item| path == inode.path)
RECURSIVE FindEntry(_, _)
FindEntry(entries, path) ==
  IF entries = <<>> THEN [res |-> "none"]
  ELSE IF Head(entries).err THEN [res |-> "panic"]
  ELSE IF PathEq(Head(entries).path, path)
       THEN [res |-> "found", entry |-> Head(entries)]
  ELSE FindEntry(Tail(entries), path)

\* Read::read_exact of n bytes on the entry's payload, pos bytes consumed
ReadExact(data, io, pos, n) ==
  IF n = 0 THEN [res |-> "ok", pos |-> pos]
  ELSE IF Len(data) - pos = 0 THEN [res |-> "eof", pos |-> pos]
  ELSE IF io # "ok" THEN [res |-> io, pos |-> pos]
  ELSE IF Len(data) - pos < n THEN [res |-> "eof", pos |-> Len(data)]
  ELSE [res |-> "ok", pos |-> pos + n]

\* the loop of lines 447-455: one read_exact of BLKSIZE bytes per round
RECURSIVE SkipBlocks(_, _, _, _)
SkipBlocks(data, io, pos, rounds) ==
  IF rounds = 0 THEN [res |-> "ok", pos |-> pos]
  ELSE LET r == ReadExact(data, io, pos, BLKSIZE)
       IN IF r.res # "ok" THEN r
          ELSE SkipBlocks(data, io, r.pos, rounds - 1)

\* the match arms of lines 450-453 and 459-462, and line 467
ReadExactFailed(res) ==
  IF res = "eof" THEN [kind |-> "data", data |-> <<>>]
  ELSE IF res = "os" THEN Error(EIO)
  ELSE Panic

CopyFailed(io) == IF io = "os" THEN Error(EIO) ELSE Panic

Min(a, b) == IF a <= b THEN a ELSE b

\* lines 446-469 on the entry found
ReadEntry(data, io, offset, size) ==
  LET skipped == SkipBlocks(data, io, 0, offset \div BLKSIZE)
  IN IF skipped.res # "ok" THEN ReadExactFailed(skipped.res)
     ELSE LET modulo == offset % BLKSIZE
              rest == ReadExact(data, io, skipped.pos, modulo)
          IN IF rest.res # "ok" THEN ReadExactFailed(rest.res)
             ELSE LET n == Min(size, Len(data) - rest.pos)
                  IN IF n > 0 /\ io # "ok" THEN CopyFailed(io)
                     ELSE [kind |-> "data",
                           data |-> SubSeq(data, rest.pos + 1, rest.pos + n)]

\* read with the inode checks moved before the file-handle check
ReadReply_InodeFirst(tbl, dsk, ino, fh, offset, size, cond) ==
  IF ino \notin DOMAIN tbl THEN Error(ENOENT)
  ELSE IF tbl[ino].krate_path = None /\ tbl[ino].attrs.kind = "Directory"
       THEN Error(EISDIR)
  ELSE IF fh # FIL_FH THEN Error(EBADF)
  ELSE IF tbl[ino].krate_path = None THEN Error(EINVAL)
  ELSE LET krate == ArchiveNow(dsk[tbl[ino].krate_path[1]], cond)
       IN IF ~krate.ok THEN Panic
          ELSE LET found == FindEntry(krate.entries, tbl[ino].path)
               IN IF found.res # "found" THEN Panic
                  ELSE ReadEntry(found.entry.data, krate.io, offset, size)

\* TRUE when read gets as far as reopening the archive
ReadReopens(tbl, ino, fh) ==
  fh = FIL_FH /\ ino \in DOMAIN tbl /\ tbl[ino].krate_path # None

ReadReply(tbl, dsk, ino, fh, offset, size, cond) ==
  IF fh # FIL_FH THEN Error(EBADF)
  ELSE IF ino \notin DOMAIN tbl THEN Error(ENOENT)
  ELSE LET inode == tbl[ino]
       IN IF inode.krate_path = None
          THEN IF inode.attrs.kind = "Directory" THEN Error(EISDIR)
               ELSE Error(EINVAL)
          ELSE LET krate == ArchiveNow(dsk[inode.krate_path[1]], cond)
               IN IF ~krate.ok THEN Panic
                  ELSE LET found == FindEntry(krate.entries, inode.path)
                       IN IF found.res # "found" THEN Panic
                          ELSE ReadEntry(found.entry.data, krate.io,
                                         offset, size)

\* ---- the handlers, one request at a time once init has returned ----
Inos == 1..next_inode

\* O_RDONLY, each write-like flag, O_NONBLOCK, and O_WRONLY|O_CREAT|O_TRUNC
FlagInputs ==
  {0, O_WRONLY, O_RDWR, O_CREAT, O_EXCL, O_TRUNC, O_APPEND, 2048,
   BitOr(O_WRONLY, BitOr(O_CREAT, O_TRUNC))}

FhInputs == {DIR_FH, FIL_FH}
ReaddirOffsets == 0..2
ReadOffsets == {0, 1}
ReadSizes == {0, 1, 4}

Ready == pc = "serving" /\ reply = NoReply /\ listing = Idle

\* the reply is sent; a panic takes the session down
\* a handler that takes a fresh inode number while it answers
Answer_Allocates(req, rep) ==
  /\ reply' = [req |-> req, rep |-> rep]
  /\ pc' = IF rep.kind = "panic" THEN "aborted" ELSE pc
  /\ next_inode' = next_inode + 1
  /\ UNCHANGED <<inodes, host, disk, cur, listing, gvars, pvars>>

Answer(req, rep) ==
  /\ reply' = [req |-> req, rep |-> rep]
  /\ pc' = IF rep.kind = "panic" THEN "aborted" ELSE pc
  /\ UNCHANGED <<inodes, next_inode, host, disk, cur, listing, gvars, pvars>>

Getattr(ino) ==
  /\ Ready
  /\ Answer([op |-> "getattr", ino |-> ino], GetattrReply(inodes, ino))

Lookup(parent, name) ==
  /\ Ready
  /\ Answer([op |-> "lookup", parent |-> parent, name |-> name],
            LookupReply(inodes, parent, name))

Opendir(ino, flags) ==
  /\ Ready
  /\ Answer([op |-> "opendir", ino |-> ino, flags |-> flags],
            OpendirReply(inodes, ino, flags))

Readdir(ino, fh, offset, cap) ==
  /\ Ready
  /\ Answer([op |-> "readdir", ino |-> ino, fh |-> fh, offset |-> offset,
             cap |-> cap],
            ReaddirReply(inodes, ino, fh, offset, cap))

Open(ino, flags) ==
  /\ Ready
  /\ Answer([op |-> "open", ino |-> ino, flags |-> flags],
            OpenReply(inodes, ino, flags))

Read(ino, fh, offset, size, cond) ==
  /\ Ready
  /\ cond # "same" => ReadReopens(inodes, ino, fh)
  /\ Answer([op |-> "read", ino |-> ino, fh |-> fh, offset |-> offset,
             size |-> size, cond |-> cond],
            ReadReply(inodes, disk, ino, fh, offset, size, cond))

\* the handler has returned and the next request can be dispatched
Return ==
  /\ pc = "serving"
  /\ reply # NoReply
  /\ reply' = NoReply
  /\ UNCHANGED <<pc, inodes, next_inode, host, disk, cur, listing,
                 gvars, pvars>>

\* ---- a caller paging through a directory ----
\* readdir at offset 0, then again with the offset of the last entry
\* received, until a batch comes back empty
ListingAfter(ino, cap, acc, batches, rep) ==
  IF rep.kind # "dir" THEN [state |-> "failed", ino |-> ino, cap |-> cap,
                             acc |-> acc, batches |-> batches]
  ELSE [state |-> IF rep.entries = <<>> THEN "done" ELSE "more",
        ino |-> ino, cap |-> cap, acc |-> acc \o rep.entries,
        batches |-> batches]

ListStart(ino, cap) ==
  /\ Ready
  /\ ino \in DOMAIN inodes
  /\ inodes[ino].attrs.kind = "Directory"
  /\ LET rep == ReaddirReply(inodes, ino, DIR_FH, 0, cap)
     IN /\ listing' = ListingAfter(ino, cap, <<>>, 1, rep)
        /\ pc' = IF rep.kind = "panic" THEN "aborted" ELSE pc
  /\ UNCHANGED <<inodes, next_inode, host, disk, cur, reply, gvars, pvars>>

ListNext ==
  /\ pc = "serving"
  /\ listing.state = "more"
  /\ listing.batches < MaxBatches
  /\ LET last == listing.acc[Len(listing.acc)].offset
         rep == ReaddirReply(inodes, listing.ino, DIR_FH, last, listing.cap)
     IN /\ listing' = ListingAfter(listing.ino, listing.cap, listing.acc,
                                   listing.batches + 1, rep)
        /\ pc' = IF rep.kind = "panic" THEN "aborted" ELSE pc
  /\ UNCHANGED <<inodes, next_inode, host, disk, cur, reply, gvars, pvars>>

ListClose ==
  /\ pc = "serving"
  /\ listing.state \in {"done", "more"}
  /\ listing.state = "more" => listing.batches = MaxBatches
  /\ listing' = Idle
  /\ UNCHANGED <<pc, inodes, next_inode, host, disk, cur, reply, gvars, pvars>>

\* ---- lib.rs: the generic FuseFs<Imp> ----
\* what a provider's list_files can return: None, or the children of the
\* directory, each a Dir or a File with its name
DirChild(kind, name) == [kind |-> kind, name |-> name]
DirChildren == {DirChild(k, n) : k \in {"Dir", "File"}, n \in {"a", "b"}}
RECURSIVE SeqsUpTo(_, _)
SeqsUpTo(S, n) ==
  IF n = 0 THEN {<<>>}
  ELSE LET shorter == SeqsUpTo(S, n - 1)
       IN shorter \cup {Append(q, x) : q \in shorter, x \in S}
Listings == {None} \cup {Some(l) : l \in SeqsUpTo(DirChildren, MaxChildren)}

InodeEntry(path, size, is_a_dir) ==
  [path |-> path, size |-> size, is_a_dir |-> is_a_dir]

InodeTreeItem(inode, path, parent, children) ==
  [inode |-> inode, path |-> path, children |-> children, parent |-> parent]

\* the path populate_inodes_rec is being called with
CallPath ==
  IF frames = <<>> THEN generic.inodes[FUSE_ROOT_ID].path
  ELSE Push(frames[Len(frames)].path, frames[Len(frames)].child[1].name)

\* populate_inodes, lines 85-99: imp.init().unwrap(), the root entry, and
\* the call of populate_inodes_rec for the root path
PopulateInodes(root) ==
  /\ gpc = "new"
  /\ IF root = None
     THEN gpc' = "aborted" /\ UNCHANGED generic
     ELSE /\ generic' = [generic EXCEPT !.inodes =
                 Insert(@, FUSE_ROOT_ID, InodeEntry(root[1], 0, TRUE))]
          /\ gpc' = "call"
  /\ UNCHANGED <<frames, greply>>
  /\ UNCHANGED <<pc, inodes, next_inode, host, disk, cur, reply, listing,
                 pvars>>

\* populate_inodes_rec, lines 104-111: list_files, which panics on None
PopulateInodesRec(files) ==
  /\ gpc = "call"
  /\ files # None =>
       \/ Len(frames) + 1 < MaxDepth
       \/ \A i \in 1..Len(files[1]) : files[1][i].kind = "File"
  /\ IF files = None
     THEN gpc' = "aborted" /\ UNCHANGED frames
     ELSE /\ frames' = Append(frames, [path |-> CallPath, rest |-> files[1],
                                       acc |-> <<>>, child |-> None])
          /\ gpc' = "iter"
  /\ UNCHANGED <<generic, greply>>
  /\ UNCHANGED <<pc, inodes, next_inode, host, disk, cur, reply, listing,
                 pvars>>

\* the closure handing every child the same number: no increment
PopulateChild_NoIncrement ==
  /\ gpc = "iter"
  /\ frames[Len(frames)].rest # <<>>
  /\ LET top == frames[Len(frames)]
         child == Head(top.rest)
         inode == generic.next_inode
     IN /\ generic' = [generic EXCEPT !.inodes =
              Insert(@, inode, InodeEntry(Push(top.path, child.name), 0,
                                          child.kind = "Dir"))]
        /\ IF child.kind = "Dir"
           THEN /\ frames' = [frames EXCEPT ![Len(frames)] =
                     [top EXCEPT !.rest = Tail(@),
                                 !.child = Some([name |-> child.name,
                                                 inode |-> inode])]]
                /\ gpc' = "call"
           ELSE /\ frames' = [frames EXCEPT ![Len(frames)] =
                     [top EXCEPT !.rest = Tail(@), !.acc = Append(@, inode)]]
                /\ gpc' = "iter"
  /\ UNCHANGED greply
  /\ UNCHANGED <<pc, inodes, next_inode, host, disk, cur, reply, listing,
                 pvars>>

\* lines 112-134: the closure of the map for the next child: it takes the
\* counter's value, increments the counter, inserts the entry, and for a Dir
\* calls populate_inodes_rec on the joined path
PopulateChild ==
  /\ gpc = "iter"
  /\ frames[Len(frames)].rest # <<>>
  /\ LET top == frames[Len(frames)]
         child == Head(top.rest)
         inode == generic.next_inode
     IN /\ generic' = [generic EXCEPT
              !.next_inode = @ + 1,
              !.inodes = Insert(@, inode,
                                InodeEntry(Push(top.path, child.name), 0,
                                           child.kind = "Dir"))]
        /\ IF child.kind = "Dir"
           THEN /\ frames' = [frames EXCEPT ![Len(frames)] =
                     [top EXCEPT !.rest = Tail(@),
                                 !.child = Some([name |-> child.name,
                                                 inode |-> inode])]]
                /\ gpc' = "call"
           ELSE /\ frames' = [frames EXCEPT ![Len(frames)] =
                     [top EXCEPT !.rest = Tail(@), !.acc = Append(@, inode)]]
                /\ gpc' = "iter"
  /\ UNCHANGED greply
  /\ UNCHANGED <<pc, inodes, next_inode, host, disk, cur, reply, listing,
                 pvars>>

\* lines 135-137 and 95-101: the listing is exhausted and collect returns.
\* A nested call's vector is dropped and the caller's closure yields its
\* inode; the outermost vector becomes the children of the root tree item
PopulateReturn ==
  /\ gpc = "iter"
  /\ frames[Len(frames)].rest = <<>>
  /\ LET top == frames[Len(frames)]
         n == Len(frames)
     IN IF n = 1
        THEN /\ generic' = [generic EXCEPT !.bidirectional_tree_root =
                   Some(InodeTreeItem(FUSE_ROOT_ID, top.path, 1, top.acc))]
             /\ frames' = <<>>
             /\ gpc' = "serving"
        ELSE /\ frames' = [SubSeq(frames, 1, n - 1) EXCEPT ![n - 1] =
                   [@ EXCEPT !.acc = Append(@, frames[n - 1].child[1].inode),
                             !.child = None]]
             /\ gpc' = "iter"
             /\ UNCHANGED generic
  /\ UNCHANGED greply
  /\ UNCHANGED <<pc, inodes, next_inode, host, disk, cur, reply, listing,
                 pvars>>

\* getattr of lib.rs, lines 155-184: the attributes are made up on every
\* call from the entry; atime is SystemTime::now()
GenericGetattrReply(tbl, ino, now) ==
  IF ino \in DOMAIN tbl
  THEN [kind |-> "attr", ttl |-> 1,
        attrs |-> [ino |-> ino, size |-> tbl[ino].size,
                   blocks |-> DivCeil(tbl[ino].size, 512), blksize |-> 512,
                   atime |-> now, mtime |-> 0, ctime |-> 0, crtime |-> 0,
                   kind |-> IF tbl[ino].is_a_dir THEN "Directory"
                            ELSE "RegularFile",
                   perm |-> IF tbl[ino].is_a_dir THEN PERM_DIR ELSE PERM_FIL,
                   nlink |-> 1, uid |-> 0, gid |-> 0, rdev |-> 0,
                   flags |-> 0]]
  ELSE Error(ENOENT)

\* the readings of the clock
Clock == {1, 2}

GenericGetattr(ino, now) ==
  /\ gpc = "serving"
  /\ greply = NoReply
  /\ greply' = [req |-> [op |-> "getattr", ino |-> ino, now |-> now],
                rep |-> GenericGetattrReply(generic.inodes, ino, now)]
  /\ UNCHANGED <<generic, gpc, frames>>
  /\ UNCHANGED <<pc, inodes, next_inode, host, disk, cur, reply, listing,
                 pvars>>

GenericReturn ==
  /\ gpc = "serving"
  /\ greply # NoReply
  /\ greply' = NoReply
  /\ UNCHANGED <<generic, gpc, frames>>
  /\ UNCHANGED <<pc, inodes, next_inode, host, disk, cur, reply, listing,
                 pvars>>

\* ---- crate_file_provider.rs: Tree::fill_tree ----
\* the entries the archive of the provider can hold: "x/y" with two payloads,
\* "x", "x/" (a directory entry), "y", "./x", "x/..", and an unreadable one
TarEntries ==
  {Entry(<<"x", "/", "y">>, <<65>>), Entry(<<"x", "/", "y">>, <<66, 67>>),
   Entry(<<"x">>, <<65>>), Entry(<<"x", "/">>, <<66, 67>>),
   Entry(<<"y">>, <<65, 66, 67>>), Entry(<<".", "/", "x">>, <<65>>),
   Entry(<<"x", "/", "..">>, <<65>>), BadEntry}

\* key k lies strictly below key p
IsUnder(k, p) == Len(k) > Len(p) /\ SubSeq(k, 1, Len(p)) = p

\* children.insert(name, node) on the map of the Directory at dir, the map
\* being created when children is None: a node already kept under that name
\* is replaced, with everything below it
MapInsert(t, dir, name, node) ==
  LET key == Append(dir, name)
      kept == {k \in DOMAIN t : ~IsUnder(k, key)} \cup {key}
  IN [k \in kept |->
        IF k = key THEN node
        ELSE IF k = dir
             THEN [t[dir] EXCEPT !.children =
                     Some(IF @ = None THEN {name} ELSE @[1] \cup {name})]
             ELSE t[k]]

\* one round of the loop over the components left after path.pop(),
\* lines 65-100
TreeStep(st, component) ==
  LET children == st.tree[st.current_node].children
      key == Append(st.current_node, component)
  IN IF st.panic THEN st
     ELSE IF children # None /\ component \in children[1]
     THEN IF st.tree[key].kind = "Directory"
          THEN [st EXCEPT !.current_node = key]
          ELSE [st EXCEPT !.panic = TRUE]
     ELSE [st EXCEPT !.tree = MapInsert(st.tree, st.current_node, component,
                                        Directory(component, None)),
                     !.current_node = key]

RECURSIVE TreeWalk(_, _)
TreeWalk(st, comps) ==
  IF comps = <<>> THEN st ELSE TreeWalk(TreeStep(st, Head(comps)), Tail(comps))

\* the body of the loop of fill_tree for the entry numbered entry_index,
\* lines 59-112: entry.unwrap() and file_name().unwrap() panic, the walk
\* panics on a File, and the File node goes into the map of the last directory
FillTreeBody(t, entry_index, entry) ==
  LET name == FileName(entry.path)
      components == Components(entry.path)
      st == TreeWalk([panic |-> FALSE, tree |-> t, current_node |-> <<>>],
                     SubSeq(components, 1, Len(components) - 1))
  IN IF entry.err \/ name = None THEN [panic |-> TRUE, tree |-> t]
     ELSE IF st.panic THEN [panic |-> TRUE, tree |-> st.tree]
     ELSE [panic |-> FALSE,
           tree |-> MapInsert(st.tree, st.current_node, name[1],
                              File(name[1], entry_index, Len(entry.data)))]

\* CrateFileProvider::init calls fill_tree (line 196), which starts with
\* arc.entries().unwrap() (line 58)
FillTreeBegin(entries_ok) ==
  /\ tpc = "new"
  /\ tpc' = IF entries_ok THEN "fill" ELSE "aborted"
  /\ UNCHANGED <<tree, storage>>
  /\ UNCHANGED <<pc, inodes, next_inode, host, disk, cur, reply, listing,
                 gvars>>

\* one item of arc.entries().enumerate()
FillTreeEntry(e) ==
  /\ tpc = "fill"
  /\ Len(storage) < MaxTarEntries
  /\ LET r == FillTreeBody(tree, Len(storage), e)
     IN /\ tree' = r.tree
        /\ tpc' = IF r.panic THEN "aborted" ELSE "fill"
  /\ storage' = Append(storage, e)
  /\ UNCHANGED <<pc, inodes, next_inode, host, disk, cur, reply, listing,
                 gvars>>

\* the archive has no more entries: fill_tree returns and init is Ok("/")
FillTreeEnd ==
  /\ tpc = "fill"
  /\ tpc' = "done"
  /\ UNCHANGED <<tree, storage>>
  /\ UNCHANGED <<pc, inodes, next_inode, host, disk, cur, reply, listing,
                 gvars>>

\* the kernel bridge dispatches one request to its handler
Dispatch ==
  /\ Ready
  /\ \/ \E ino \in Inos : Getattr(ino)
     \/ \E parent \in Inos, name \in LookupNames : Lookup(parent, name)
     \/ \E ino \in Inos, flags \in FlagInputs : Opendir(ino, flags)
     \/ \E ino \in Inos, fh \in FhInputs, offset \in ReaddirOffsets,
           cap \in 1..MaxCap : Readdir(ino, fh, offset, cap)
     \/ \E ino \in Inos, flags \in FlagInputs : Open(ino, flags)
     \/ \E ino \in Inos, fh \in FhInputs, offset \in ReadOffsets,
           size \in ReadSizes, cond \in DiskConds :
             Read(ino, fh, offset, size, cond)
     \/ \E ino \in Inos, cap \in 1..MaxCap : ListStart(ino, cap)

Next ==
  \/ \E dir_ok \in BOOLEAN : InitBegin(dir_ok)
  \/ \E f \in Files, open_ok \in BOOLEAN : InitNextFile(f, open_ok)
  \/ InitDirError
  \/ \E e \in Entries : PopulateEntry(e)
  \/ PopulateEnd
  \/ InitEnd
  \/ Dispatch
  \/ Return
  \/ ListNext
  \/ ListClose
  \/ \E root \in {None, Some(<<>>)} : PopulateInodes(root)
  \/ \E files \in Listings : PopulateInodesRec(files)
  \/ PopulateChild
  \/ PopulateReturn
  \/ \E ino \in 1..generic.next_inode, now \in Clock :
       GenericGetattr(ino, now)
  \/ GenericReturn
  \/ \E entries_ok \in BOOLEAN : FillTreeBegin(entries_ok)
  \/ \E e \in TarEntries : FillTreeEntry(e)
  \/ FillTreeEnd

Spec == Init /\ [][Next]_vars

TypeOK ==
  /\ pc \in {"new", "scan", "crate", "serving", "aborted", "absent"}
  /\ gpc \in {"new", "call", "iter", "serving", "aborted", "absent"}
  /\ tpc \in {"new", "fill", "done", "aborted", "absent"}
  /\ next_inode >= FUSE_ROOT_ID + 1

\* ---- notions the properties are stated with ----
Root == FUSE_ROOT_ID
Sealed == pc = "serving"
IsFile(i) == inodes[i].krate_path # None
IsDir(i) == inodes[i].attrs.kind = "Directory"
NameOf(i) == FileName(inodes[i].path)
ChildSet(d) == Range(inodes[d].children)

\* the file inodes made for the entries of archive k that have this path
InodesFor(k, path) ==
  {i \in DOMAIN inodes :
     IsFile(i) /\ inodes[i].krate_path = Some(k) /\ PathEq(inodes[i].path, path)}

SetMax(S) == CHOOSE m \in S : \A n \in S : m >= n

\* the payload of the last entry of archive k that has this path
LastPayload(k, path) ==
  LET es == disk[k].entries
      at == {j \in 1..Len(es) : ~es[j].err /\ PathEq(es[j].path, path)}
  IN es[SetMax(at)].data

\* f is the inode of the later of several entries of one archive that share
\* their path and differ in size
IsLaterDuplicate(f) ==
  /\ f \in DOMAIN inodes
  /\ IsFile(f)
  /\ LET same == InodesFor(inodes[f].krate_path[1], inodes[f].path)
     IN /\ f = SetMax(same)
        /\ \E g \in same : inodes[g].attrs.size # inodes[f].attrs.size

\* C1: when an archive holds two entries with the same path, a lookup of the
\* name in the directory replies with the inode made for the later entry, and
\* a read of the resolved inode returns the payload of the later entry.
C1_LastWins ==
  /\ (/\ reply.req.op = "lookup"
      /\ reply.req.parent \in DOMAIN inodes
      /\ \E f \in ChildSet(reply.req.parent) :
           IsLaterDuplicate(f) /\ NameOf(f) = Some(reply.req.name))
     => \E f \in ChildSet(reply.req.parent) :
          /\ IsLaterDuplicate(f)
          /\ NameOf(f) = Some(reply.req.name)
          /\ reply.rep.kind = "entry"
          /\ reply.rep.attrs.ino = f
          /\ reply.rep.attrs.size = inodes[f].attrs.size
  /\ (/\ reply.req.op = "read"
      /\ reply.req.fh = FIL_FH
      /\ reply.req.cond = "same"
      /\ reply.req.offset = 0
      /\ reply.req.ino \in DOMAIN inodes
      /\ IsFile(reply.req.ino)
      /\ Cardinality(InodesFor(inodes[reply.req.ino].krate_path[1],
                               inodes[reply.req.ino].path)) > 1)
     => LET payload == LastPayload(inodes[reply.req.ino].krate_path[1],
                                   inodes[reply.req.ino].path)
        IN /\ reply.rep.kind = "data"
           /\ reply.rep.data =
                SubSeq(payload, 1, Min(reply.req.size, Len(payload)))

\* C2: after init no directory has two children with the same name.
C2_SiblingNamesDistinct ==
  Sealed =>
    \A d \in DOMAIN inodes :
      \A i, j \in 1..Len(inodes[d].children) :
        (i # j /\ NameOf(inodes[d].children[i]) # None)
          => NameOf(inodes[d].children[i]) # NameOf(inodes[d].children[j])

\* the stems of the .crate files read_dir has yielded, in that order
CrateStems ==
  LET crates == SelectSeq(host, LAMBDA f : f.ext = "crate")
  IN [i \in 1..Len(crates) |-> crates[i].stem]

\* C3: after init the root exists, is a Directory, and its children are
\* exactly the directories of the discovered .crate files, in enumeration
\* order, whatever the entry paths in the archives are.
C3_RootChildrenAreCrates ==
  Sealed =>
    /\ Root \in DOMAIN inodes
    /\ IsDir(Root)
    /\ Len(inodes[Root].children) = Len(CrateStems)
    /\ \A i \in 1..Len(CrateStems) :
         /\ IsDir(inodes[Root].children[i])
         /\ inodes[inodes[Root].children[i]].path = <<CrateStems[i]>>

\* the inodes a chain of successful lookups from the root can end on
AllNames == {NameOf(i)[1] : i \in {j \in DOMAIN inodes : NameOf(j) # None}}

LookupStep(S) ==
  S \cup {LookupReply(inodes, d, n).attrs.ino :
            <<d, n>> \in {<<d, n>> \in S \X AllNames :
                            LookupReply(inodes, d, n).kind = "entry"}}

RECURSIVE LookupClosure(_)
LookupClosure(S) ==
  IF LookupStep(S) = S THEN S ELSE LookupClosure(LookupStep(S))

\* every entry the archives yielded has a path of Normal components only
AllEntriesPlain ==
  \A k \in DOMAIN disk : \A i \in 1..Len(disk[k].entries) :
    /\ ~disk[k].entries[i].err
    /\ Components(disk[k].entries[i].path) # <<>>
    /\ \A c \in Range(Components(disk[k].entries[i].path)) : IsNormal(c)

\* C4: after init every file inode made from an archive entry is reached from
\* the root by a chain of lookups that all succeed (stated for archives whose
\* entry paths are all plain).
C4_FilesReachableByLookup ==
  (Sealed /\ AllEntriesPlain) =>
    \A f \in DOMAIN inodes : IsFile(f) => f \in LookupClosure({Root})

\* C5: every request ends with a reply, data or an errno, and never aborts the
\* handler; a read whose archive cannot be reopened or no longer holds the
\* entry replies an errno (stated for archives whose entry paths are all
\* plain).
C5_HandlersAlwaysReply ==
  AllEntriesPlain =>
  /\ reply.rep.kind \in {"none", "attr", "entry", "opened", "dir", "data", "error"}
  /\ listing.state # "failed"
  /\ (reply.req.op = "read" /\ reply.req.cond \in {"removed", "dropped", "cut"})
       => reply.rep.kind = "error"

\* C6: an archive that cannot be opened or decoded is skipped and init goes
\* on with the other crates and returns Ok.
C6_BadCrateSkipped ==
  (\E f \in DOMAIN disk :
     \/ ~disk[f].ok
     \/ \E i \in 1..Len(disk[f].entries) : disk[f].entries[i].err)
    => pc \in {"scan", "crate", "serving"}

\* an entry path the tree builder is to reject
Rejected(path) ==
  \/ Components(path) = <<>>
  \/ \E i \in 1..Len(Components(path)) : ~IsNormal(Components(path)[i])

\* C7: for an entry whose path has no component, or a component "." or "..",
\* or an absolute prefix, the tree builder makes no inode, leaves the table as
\* it was, and goes on with the next entry.
C7_RejectedEntrySkipped ==
  [][(/\ pc = "crate"
      /\ disk' # disk
      /\ LET es == disk'[cur[1]].entries
         IN ~es[Len(es)].err /\ Rejected(es[Len(es)].path))
     => (inodes' = inodes /\ next_inode' = next_inode /\ pc' = "crate")]_vars

\* what a complete listing of directory d is: ".", "..", then the children
ListedAs(e) ==
  IF e.name \in {".", ".."} THEN <<e.name>> ELSE <<Some(e.name), e.ino>>

FullListing(d) ==
  <<<<".">>, <<"..">>>> \o
    [i \in 1..Len(inodes[d].children) |->
       <<NameOf(inodes[d].children[i]), inodes[d].children[i]>>]

IsPrefix(s, t) == Len(s) <= Len(t) /\ s = SubSeq(t, 1, Len(s))

\* C8: paging through a directory with any capacity of at least one entry,
\* each time from the offset of the last entry received, yields ".", "..",
\* then the children in insertion order, each once, and ends.
C8_PagingListsEachOnce ==
  listing.state \in {"more", "done"} =>
    LET got == [i \in 1..Len(listing.acc) |-> ListedAs(listing.acc[i])]
    IN /\ IsPrefix(got, FullListing(listing.ino))
       /\ listing.state = "done" => got = FullListing(listing.ino)

ParentOf(i) ==
  IF i = Root THEN Root ELSE CHOOSE d \in DOMAIN inodes : i \in ChildSet(d)

\* C9: in a readdir reply the ".." entry carries the inode number of the
\* directory's parent, and the directory's own number only for the root.
C9_DotDotIsParent ==
  (reply.req.op = "readdir" /\ reply.rep.kind = "dir") =>
    \A i \in 1..Len(reply.rep.entries) :
      reply.rep.entries[i].name = ".."
        => reply.rep.entries[i].ino = ParentOf(reply.req.ino)

\* flag f, a power of two, is set in flags
HasFlag(flags, f) == (flags \div f) % 2 = 1

WriteLike(flags) ==
  \E f \in {O_APPEND, O_CREAT, O_EXCL, O_RDWR, O_WRONLY, O_TRUNC} :
    HasFlag(flags, f)

\* C10: opendir and open reply EROFS whenever one of O_APPEND, O_CREAT,
\* O_EXCL, O_RDWR, O_WRONLY, O_TRUNC is set, whether or not the inode exists;
\* with none set they reply ENOENT for an absent inode and otherwise the
\* directory sentinel (opendir) or the file sentinel (open).
C10_OpenFlagsBeforeInode ==
  reply.req.op \in {"opendir", "open"} =>
    IF WriteLike(reply.req.flags) THEN reply.rep = Error(EROFS)
    ELSE IF reply.req.ino \notin DOMAIN inodes THEN reply.rep = Error(ENOENT)
    ELSE /\ reply.rep.kind = "opened"
         /\ reply.rep.fh = IF reply.req.op = "opendir" THEN DIR_FH ELSE FIL_FH

\* an open for writing of an inode that does not exist was answered EROFS
C10_Witness ==
  /\ reply.req.op \in {"opendir", "open"}
  /\ WriteLike(reply.req.flags)
  /\ reply.req.ino \notin DOMAIN inodes
  /\ reply.rep = Error(EROFS)

\* C11: read checks the file handle first (EBADF, even for an absent inode
\* or a directory), then the inode (ENOENT), then its kind (EISDIR); readdir
\* checks the inode (ENOENT), then the handle (EBADF), then the kind
\* (ENOTDIR). So read never accepts the directory sentinel, nor readdir the
\* file sentinel.
C11_CheckOrder ==
  /\ reply.req.op = "read" =>
       IF reply.req.fh # FIL_FH THEN reply.rep = Error(EBADF)
       ELSE IF reply.req.ino \notin DOMAIN inodes THEN reply.rep = Error(ENOENT)
       ELSE IsDir(reply.req.ino) => reply.rep = Error(EISDIR)
  /\ reply.req.op = "readdir" =>
       IF reply.req.ino \notin DOMAIN inodes THEN reply.rep = Error(ENOENT)
       ELSE IF reply.req.fh # DIR_FH THEN reply.rep = Error(EBADF)
       ELSE ~IsDir(reply.req.ino) => reply.rep = Error(ENOTDIR)

\* a read of a directory with the handle opendir gave was answered EBADF
C11_Witness ==
  /\ reply.req.op = "read"
  /\ reply.req.fh = DIR_FH
  /\ reply.req.ino \in DOMAIN inodes
  /\ IsDir(reply.req.ino)
  /\ reply.rep = Error(EBADF)

\* the archive entry file inode f was made from: populate_crate makes one
\* file inode per entry, in the order of the entries
EntryOf(f) ==
  LET k == inodes[f].krate_path[1]
      mine == {i \in DOMAIN inodes : IsFile(i) /\ inodes[i].krate_path = Some(k)}
  IN disk[k].entries[Cardinality({i \in mine : i <= f})]

\* a read request for a file inode, with the right handle, on an archive that
\* is still as init saw it
ReadOfFile ==
  /\ reply.req.op = "read"
  /\ reply.req.fh = FIL_FH
  /\ reply.req.cond = "same"
  /\ reply.req.ino \in DOMAIN inodes
  /\ IsFile(reply.req.ino)

\* C12: for a file inode of size n, 0 <= offset <= n and any size, read
\* returns exactly the bytes [offset, min(offset + size, n)) of its entry.
C12_ReadReturnsRange ==
  (ReadOfFile /\ reply.req.offset <= inodes[reply.req.ino].attrs.size) =>
    LET n == inodes[reply.req.ino].attrs.size
        payload == EntryOf(reply.req.ino).data
    IN /\ reply.rep.kind = "data"
       /\ reply.rep.data =
            SubSeq(payload, reply.req.offset + 1,
                   Min(reply.req.offset + reply.req.size, n))

\* C13: for a file inode and an offset at or past its size, read returns an
\* empty buffer, not an error.
C13_ReadPastEndIsEmpty ==
  (ReadOfFile /\ reply.req.offset >= inodes[reply.req.ino].attrs.size) =>
    reply.rep = [kind |-> "data", data |-> <<>>]

\* the children readdir lists for directory p, when it lists them at all
ChildrenListed(p) ==
  ReaddirReply(inodes, p, DIR_FH, 1, Len(inodes[p].children) + 2)

\* C14: for every child (inode c, name n) that readdir(p) lists, lookup(p, n)
\* replies with the attributes of c; and lookup(p, n) replies ENOENT exactly
\* when readdir(p) lists no child named n.
C14_LookupAgreesWithReaddir ==
  (/\ reply.req.op = "lookup"
   /\ reply.req.parent \in DOMAIN inodes
   /\ IsDir(reply.req.parent)
   /\ ChildrenListed(reply.req.parent).kind = "dir") =>
    LET listed == ChildrenListed(reply.req.parent).entries
        named == {i \in 1..Len(listed) : listed[i].name = reply.req.name}
    IN /\ \A i \in named :
            /\ reply.rep.kind = "entry"
            /\ reply.rep.attrs = inodes[listed[i].ino].attrs
       /\ (reply.rep = Error(ENOENT)) <=> (named = {})

RECURSIVE Descendants(_)
Descendants(S) ==
  LET below == S \cup UNION {ChildSet(d) : d \in S}
  IN IF below = S THEN S ELSE Descendants(below)

\* the directories under the root that carry the stem of crate file k
CrateDirs(k) ==
  {d \in ChildSet(Root) : IsDir(d) /\ inodes[d].path = <<k.stem>>}

\* C15: the file inode of every entry of archive C lies below the top-level
\* directory made for C; nothing from C hangs directly under the root or under
\* another crate's directory.
C15_EntriesBelowOwnCrate ==
  Sealed =>
    \A f \in DOMAIN inodes :
      IsFile(f) => f \in Descendants(CrateDirs(inodes[f].krate_path[1])) 

\* C16: children are appended only to Directory inodes: every RegularFile
\* inode has an empty children list.
C16_FilesHaveNoChildren ==
  \A i \in DOMAIN inodes :
    inodes[i].attrs.kind = "RegularFile" => inodes[i].children = <<>>

\* the places (inode d, index j) where inode i stands in a children list
Occurrences(i) ==
  UNION {{<<d, j>> : j \in {j \in 1..Len(inodes[d].children) :
                              inodes[d].children[j] = i}} : d \in DOMAIN inodes}

\* C17: after init, every inode other than the root appears in the children
\* list of exactly one inode, and exactly once in that list.
C17_OneParentOnce ==
  Sealed => \A i \in DOMAIN inodes \ {Root} : Cardinality(Occurrences(i)) = 1

\* a sealed table with two files below the same directory, not the root: the
\* second walk found the directory the first had linked
C17_Witness ==
  /\ Sealed
  /\ \E f, g \in DOMAIN inodes :
       /\ f # g /\ IsFile(f) /\ IsFile(g)
       /\ ParentOf(f) # Root
       /\ ParentOf(f) = ParentOf(g)

\* C18: at every point during and after init, every inode number found in a
\* children list is a key of the inode table.
C18_ChildrenAreKeys ==
  \A d \in DOMAIN inodes : ChildSet(d) \subseteq DOMAIN inodes

\* init is in the middle of an archive and a directory under the root already
\* has children
C18_Witness ==
  /\ pc = "crate"
  /\ \E d \in DOMAIN inodes \ {Root} :
       /\ d \in ChildSet(Root)
       /\ ChildSet(d) # {}

\* C19: once init has returned, no step of getattr, lookup, opendir, readdir,
\* open or read, whether it succeeds or fails, changes the inode table or the
\* next-inode counter.
C19_HandlersLeaveTable ==
  [][Sealed => (inodes' = inodes /\ next_inode' = next_inode)]_vars

\* a handler has run on the sealed table: a read has returned bytes
C19_Witness ==
  /\ Sealed
  /\ reply.req.op = "read"
  /\ reply.rep.kind = "data"
  /\ reply.rep.data # <<>>

\* a step from table tbl and counter next to tbl2 and next2 hands out only
\* fresh numbers: the counter does not go back, every key stays, every new key
\* other than the root's fixed number lies between the old and the new
\* counter, and there are as many new keys as numbers taken
HandsOutFresh(tbl, next, tbl2, next2) ==
  LET fresh == (DOMAIN tbl2 \ DOMAIN tbl) \ {FUSE_ROOT_ID}
  IN /\ next2 >= next
     /\ DOMAIN tbl \subseteq DOMAIN tbl2
     /\ \A k \in fresh : next <= k /\ k < next2
     /\ Cardinality(fresh) = next2 - next

\* C20: in both filesystems the counter starts at 2 and only grows; every
\* inserted inode gets a number no other inode has and keeps it; the number in
\* its attributes is its key in the table; and the counter is greater than
\* every key, so no number is reused.
C20_FreshInodeNumbers ==
  /\ [](/\ (pc = "new" => next_inode = 2)
        /\ (gpc = "new" => generic.next_inode = 2)
        /\ \A k \in DOMAIN inodes :
             inodes[k].attrs.ino = k /\ k < next_inode
        /\ \A k \in DOMAIN generic.inodes : k < generic.next_inode
        /\ (reply.req.op = "getattr" /\ reply.rep.kind = "attr") =>
             reply.rep.attrs.ino = reply.req.ino
        /\ greply.rep.kind = "attr" =>
             greply.rep.attrs.ino = greply.req.ino)
  /\ [][/\ HandsOutFresh(inodes, next_inode, inodes', next_inode')
        /\ \A k \in DOMAIN inodes :
             /\ inodes'[k].attrs = inodes[k].attrs
             /\ inodes'[k].path = inodes[k].path
        /\ HandsOutFresh(generic.inodes, generic.next_inode,
                         generic'.inodes, generic'.next_inode)
        /\ \A k \in DOMAIN generic.inodes :
             generic'.inodes[k] = generic.inodes[k]]_vars

\* the generic filesystem has numbered a directory, a child of it and a
\* sibling after them, and getattr has answered for the last number given
C20_Witness ==
  /\ gpc = "serving"
  /\ Len(generic.bidirectional_tree_root[1].children) = 2
  /\ generic.next_inode = 5
  /\ greply.rep.kind = "attr"
  /\ greply.req.ino = 4

\* the four times of an attribute record are the epoch
EpochTimes(attrs) ==
  attrs.atime = 0 /\ attrs.mtime = 0 /\ attrs.ctime = 0 /\ attrs.crtime = 0

\* C21: in both filesystems getattr(ino) depends on ino alone: the record it
\* replies with for an existing inode is the one any other call for that
\* inode gets, whenever it is made, and its atime, mtime, ctime and crtime are
\* the epoch.
C21_GetattrPure ==
  /\ (reply.req.op = "getattr" /\ reply.rep.kind = "attr") =>
       /\ reply.rep = GetattrReply(inodes, reply.req.ino)
       /\ EpochTimes(reply.rep.attrs)
  /\ greply.rep.kind = "attr" =>
       /\ \A now \in Clock :
            GenericGetattrReply(generic.inodes, greply.req.ino, now) = greply.rep
       /\ EpochTimes(greply.rep.attrs)

\* the entries of the archive that fill_tree took without aborting, by number
Taken == IF tpc \in {"fill", "done"} THEN 1..Len(storage) ELSE {}

\* the place in the tree of the entry with path p
KeyOf(p) == Components(p)

\* entry j is the last of two or more entries with its path
LastOfShared(j) ==
  /\ \E i \in Taken : i < j /\ PathEq(storage[i].path, storage[j].path)
  /\ \A k \in Taken : k > j => ~PathEq(storage[k].path, storage[j].path)

\* every Directory holds at most one child per name: each name of its map
\* leads to one node, which carries that name
OneChildPerName ==
  \A d \in DOMAIN tree :
    (tree[d].kind = "Directory" /\ tree[d].children # None) =>
      \A n \in tree[d].children[1] :
        Append(d, n) \in DOMAIN tree /\ tree[Append(d, n)].name = n

\* C22 as stated: after fill_tree has taken any entries without aborting,
\* each directory holds at most one child per name, and for two entries with
\* the same path the child kept for the path carries the index and the size
\* of the later one.
C22_TreeLastWins ==
  /\ OneChildPerName
  /\ \A j \in Taken :
       LastOfShared(j) =>
         /\ KeyOf(storage[j].path) \in DOMAIN tree
         /\ tree[KeyOf(storage[j].path)] =
              File(FileName(storage[j].path)[1], j - 1, Len(storage[j].data))

====
